---- MODULE Spec2Model ----
(* Model of src/src/minimal_agent/tools.py: the two search adapters            *)
(* (DuckDuckGoSearchTool, TavilySearchTool), the composite WebSearchTool with  *)
(* its one-hop fallback, and VisitWebpageTool.  Backends (DDGS.text,           *)
(* TavilyClient.search, requests.get, markdownify) are the environment: their  *)
(* responses are drawn from bounded sets.  Python text handled by the search   *)
(* tools is a TLA+ string; page text handled by VisitWebpageTool is a sequence *)
(* of one-character strings so that it can be sliced and scanned.              *)
EXTENDS Integers, Sequences, FiniteSets, TLC

VARIABLES max_results, has_tavily, last, prev, max_output_length, visit

vars == <<max_results, has_tavily, last, prev, max_output_length, visit>>

(* ------------------------------ bounds ---------------------------------- *)

\* longest ranked list a search backend hands back
MaxBackendLen == 2
\* largest result cap given to a constructor
MaxResultsCap == 2

(* --------------------------- exceptions --------------------------------- *)

\* Ancestors(c): the classes an exception of class c is an instance of.
\* DuckDuckGoSearchException and its subclasses are the ones imported on line 1;
\* Timeout / RequestException are the ones named by the handlers of lines 56-58.
Ancestors(c) ==
    CASE c = "DuckDuckGoSearchException" -> {c, "Exception"}
      [] c = "RatelimitException" -> {c, "DuckDuckGoSearchException", "Exception"}
      [] c = "RequestException" -> {c, "Exception"}
      [] c = "Timeout" -> {c, "RequestException", "Exception"}
      [] c = "ReadTimeout" -> {c, "Timeout", "RequestException", "Exception"}
      [] c = "ConnectionError" -> {c, "RequestException", "Exception"}
      [] c = "HTTPError" -> {c, "RequestException", "Exception"}
      [] OTHER -> {c, "Exception"}

IsInstance(e, cls) == cls \in Ancestors(e.cls)

NoExc == [cls |-> "", msg |-> ""]

Return(v) == [kind |-> "return", value |-> v, exc |-> NoExc]
Raise(e) == [kind |-> "raise", value |-> "", exc |-> e]

NoResultsFault ==
    [cls |-> "Exception", msg |-> "No results found! Try a less restrictive/shorter query."]

(* --------------------------- search data -------------------------------- *)

Queries == {"capital of France", "q2"}

\* ranked results as the backends know them: title, link, snippet
Results ==
    { [title |-> "Paris", link |-> "https://x", snippet |-> "Paris is the capital"],
      [title |-> "Lyon", link |-> "https://y", snippet |-> "Lyon is a city"] }

ResultLists == UNION { [1..n -> Results] : n \in 0..MaxBackendLen }

\* the dictionaries each backend client returns for one ranked result
DDGDict(r) == [title |-> r.title, href |-> r.link, body |-> r.snippet]
TavilyDict(r) == [title |-> r.title, url |-> r.link, content |-> r.snippet]

Map(f(_), s) == [i \in 1..Len(s) |-> f(s[i])]

RECURSIVE Join(_, _)
\* sep.join(parts)
Join(sep, parts) ==
    IF Len(parts) = 0 THEN ""
    ELSE IF Len(parts) = 1 THEN parts[1]
    ELSE parts[1] \o sep \o Join(sep, Tail(parts))

Min(a, b) == IF a <= b THEN a ELSE b

(* ------------------------- search backends ------------------------------ *)

\* what DDGS.text(query, max_results=n) can do: hand back a ranked list of at
\* most n dictionaries, or raise
DDGFaults ==
    { [cls |-> "DuckDuckGoSearchException", msg |-> "outage"],
      [cls |-> "RatelimitException", msg |-> "202 Ratelimit"],
      [cls |-> "ValueError", msg |-> "keywords is mandatory"] }

DDGBackends(n) ==
    { [kind |-> "results", results |-> Map(DDGDict, l), exc |-> NoExc] :
        l \in { m \in ResultLists : Len(m) <= n } }
    \cup { [kind |-> "raise", results |-> <<>>, exc |-> e] : e \in DDGFaults }

\* what TavilyClient.search(query, include_raw_content="text") can do: hand
\* back a response dictionary (keys: its key set; results: its "results"
\* entry, which may be longer than the cap), or raise
TavilyKeys == {"query", "results", "response_time"}

TavilyFaults ==
    { [cls |-> "InvalidAPIKeyError", msg |-> "invalid key"] }

TavilyBackends ==
    { [kind |-> "dict", keys |-> TavilyKeys, results |-> Map(TavilyDict, l), exc |-> NoExc] :
        l \in ResultLists }
    \cup { [kind |-> "dict", keys |-> {}, results |-> <<>>, exc |-> NoExc] }
    \cup { [kind |-> "raise", keys |-> {}, results |-> <<>>, exc |-> e] : e \in TavilyFaults }

NoDDG == [kind |-> "none", results |-> <<>>, exc |-> NoExc]

NoBackend == [kind |-> "none", keys |-> {}, results |-> <<>>, exc |-> NoExc]

(* --------------------------- search adapters ---------------------------- *)

DDGBlock(result) ==
    "[" \o result.title \o "](" \o result.href \o ")\n" \o result.body

\* DuckDuckGoSearchTool.__call__, given what self.ddgs.text does
DuckDuckGoCall(query, backend) ==
    IF backend.kind = "raise" THEN Raise(backend.exc)
    ELSE LET results == backend.results IN
         IF Len(results) = 0 THEN Raise(NoResultsFault)
         ELSE Return("## Search Results\n\n" \o Join("\n\n", Map(DDGBlock, results)))

TavilyBlock(result) ==
    "[" \o result.title \o "](" \o result.content

\* TavilySearchTool.__call__, given what self.client.search does; n is
\* self.max_results.  len(results) of line 118 is the number of keys of the
\* response dictionary.
TavilyCall(query, backend, n) ==
    IF backend.kind = "raise" THEN Raise(backend.exc)
    ELSE IF Cardinality(backend.keys) = 0 THEN Raise(NoResultsFault)
    ELSE IF "results" \notin backend.keys
         THEN Raise([cls |-> "KeyError", msg |-> "'results'"])
    ELSE LET results == SubSeq(backend.results, 1, Min(Len(backend.results), n)) IN
         Return("## Search Results\n\n" \o Join("\n\n", Map(TavilyBlock, results)))

(* --------------------------- composite tool ----------------------------- *)

CallOf(adapter, query) == [adapter |-> adapter, query |-> query]

DdgOnly(query, d, printed) ==
    [outcome |-> d, calls |-> <<CallOf("ddg", query)>>, printed |-> printed]

Both(query, o) ==
    [outcome |-> o, calls |-> <<CallOf("ddg", query), CallOf("tavily", query)>>,
     printed |-> TRUE]

NoTavilyAttribute ==
    [cls |-> "AttributeError", msg |-> "'WebSearchTool' object has no attribute 'tavily'"]

\* variant: asks the keyed adapter as well after the free-tier adapter succeeded
WebSearchCall_AlsoKeyed(query, ddg, tav, has, n) ==
    LET d == DuckDuckGoCall(query, ddg) IN
    IF d.kind = "return"
    THEN IF has /\ TavilyCall(query, tav, n).kind = "return"
         THEN Both(query, TavilyCall(query, tav, n)) ELSE DdgOnly(query, d, FALSE)
    ELSE IF IsInstance(d.exc, "DuckDuckGoSearchException")
    THEN IF has THEN Both(query, TavilyCall(query, tav, n))
         ELSE DdgOnly(query, Raise(NoTavilyAttribute), TRUE)
    ELSE DdgOnly(query, d, FALSE)

\* variant: a failure of the keyed adapter is replaced by the outage fault
WebSearchCall_MaskKeyedFault(query, ddg, tav, has, n) ==
    LET d == DuckDuckGoCall(query, ddg) IN
    IF d.kind = "return" THEN DdgOnly(query, d, FALSE)
    ELSE IF IsInstance(d.exc, "DuckDuckGoSearchException")
    THEN IF has
         THEN Both(query, IF TavilyCall(query, tav, n).kind = "raise" THEN d
                          ELSE TavilyCall(query, tav, n))
         ELSE DdgOnly(query, Raise(NoTavilyAttribute), TRUE)
    ELSE DdgOnly(query, d, FALSE)

\* variant: without a keyed adapter an outage yields an empty result text
WebSearchCall_EmptyOnOutage(query, ddg, tav, has, n) ==
    LET d == DuckDuckGoCall(query, ddg) IN
    IF d.kind = "return" THEN DdgOnly(query, d, FALSE)
    ELSE IF IsInstance(d.exc, "DuckDuckGoSearchException")
    THEN IF has THEN Both(query, TavilyCall(query, tav, n))
         ELSE DdgOnly(query, Return(""), TRUE)
    ELSE DdgOnly(query, d, FALSE)

\* variant: the handler catches Exception instead of DuckDuckGoSearchException
WebSearchCall_CatchAll(query, ddg, tav, has, n) ==
    LET d == DuckDuckGoCall(query, ddg) IN
    IF d.kind = "return" THEN DdgOnly(query, d, FALSE)
    ELSE IF IsInstance(d.exc, "Exception")
    THEN IF has THEN Both(query, TavilyCall(query, tav, n))
         ELSE DdgOnly(query, Raise(NoTavilyAttribute), TRUE)
    ELSE DdgOnly(query, d, FALSE)

\* variant: the keyed adapter is tried first when it is configured
WebSearchCall_KeyedFirst(query, ddg, tav, has, n) ==
    LET d == DuckDuckGoCall(query, ddg) IN
    IF has /\ TavilyCall(query, tav, n).kind = "return"
    THEN [outcome |-> TavilyCall(query, tav, n),
          calls |-> <<CallOf("tavily", query)>>, printed |-> FALSE]
    ELSE IF has
    THEN [outcome |-> d,
          calls |-> <<CallOf("tavily", query), CallOf("ddg", query)>>, printed |-> FALSE]
    ELSE DdgOnly(query, d, FALSE)

\* WebSearchTool.__call__: has is whether __init__ attached self.tavily.
\* calls is the sequence of adapter invocations it makes, printed whether the
\* diagnostic note of line 148 was emitted.
WebSearchCall(query, ddg, tav, has, n) ==
    LET d == DuckDuckGoCall(query, ddg) IN
    IF d.kind = "return" THEN DdgOnly(query, d, FALSE)
    ELSE IF IsInstance(d.exc, "DuckDuckGoSearchException")
    THEN IF has THEN Both(query, TavilyCall(query, tav, n))
         ELSE DdgOnly(query, Raise(NoTavilyAttribute), TRUE)
    ELSE DdgOnly(query, d, FALSE)

\* isinstance(tavily_api_key, str) of WebSearchTool.__init__
ApiKeys == {"None", "tvly-key"}
HasTavily(tavily_api_key) == tavily_api_key # "None"

\* how a WebSearchTool invocation ended, as seen by a later invocation
KindOf(r) ==
    IF r.outcome.kind = "raise" THEN "failure"
    ELSE IF Len(r.calls) = 2 THEN "fallback" ELSE "primary"

(* ------------------------------ state ----------------------------------- *)

Idle ==
    [tool |-> "none", query |-> "", ddg |-> NoDDG, tav |-> NoBackend,
     outcome |-> [kind |-> "none", value |-> "", exc |-> NoExc],
     calls |-> <<>>, printed |-> FALSE]

InitSearch ==
    /\ max_results \in 1..MaxResultsCap
    /\ has_tavily \in { HasTavily(k) : k \in ApiKeys }
    /\ last = Idle
    /\ prev = "none"

\* a direct call of a DuckDuckGoSearchTool(max_results)
CallDuckDuckGo ==
    \E q \in Queries, b \in DDGBackends(max_results) :
        /\ last' = [tool |-> "DuckDuckGoSearchTool", query |-> q,
                    ddg |-> b, tav |-> NoBackend,
                    outcome |-> DuckDuckGoCall(q, b),
                    calls |-> <<>>, printed |-> FALSE]
        /\ UNCHANGED <<max_results, has_tavily, prev, max_output_length, visit>>

\* a direct call of a TavilySearchTool(tavily_api_key, max_results)
CallTavily ==
    \E q \in Queries, b \in TavilyBackends :
        /\ last' = [tool |-> "TavilySearchTool", query |-> q,
                    ddg |-> NoDDG, tav |-> b,
                    outcome |-> TavilyCall(q, b, max_results),
                    calls |-> <<>>, printed |-> FALSE]
        /\ UNCHANGED <<max_results, has_tavily, prev, max_output_length, visit>>

\* a call of the WebSearchTool(max_results, tavily_api_key); last.tav keeps
\* the Tavily client's answer only when the client was asked
CallWebSearch ==
    \E q \in Queries, d \in DDGBackends(max_results), t \in TavilyBackends :
        LET r == WebSearchCall(q, d, t, has_tavily, max_results) IN
        /\ last' = [tool |-> "WebSearchTool", query |-> q, ddg |-> d,
                    tav |-> (IF \E i \in 1..Len(r.calls) : r.calls[i].adapter = "tavily"
                             THEN t ELSE NoBackend),
                    outcome |-> r.outcome, calls |-> r.calls, printed |-> r.printed]
        /\ prev' = (IF last.tool = "WebSearchTool" THEN KindOf(last) ELSE prev)
        /\ UNCHANGED <<max_results, has_tavily, max_output_length, visit>>

(* --------------------------- page text ---------------------------------- *)

\* longest text markdownify hands back
MaxTextLen == 6
\* largest max_output_length given to the constructor
MaxOutLen == 6

NL == "\n"
Chars == {"a", NL}
Whitespace == {NL, " "}

Texts == UNION { [1..n -> Chars] : n \in 0..MaxTextLen }

RECURSIVE LStrip(_)
LStrip(s) ==
    IF Len(s) > 0 /\ s[1] \in Whitespace THEN LStrip(Tail(s)) ELSE s

RECURSIVE RStrip(_)
RStrip(s) ==
    IF Len(s) > 0 /\ s[Len(s)] \in Whitespace
    THEN RStrip(SubSeq(s, 1, Len(s) - 1)) ELSE s

\* str.strip()
Strip(s) == RStrip(LStrip(s))

\* number of line breaks at the head of s
RECURSIVE RunLen(_)
RunLen(s) == IF Len(s) > 0 /\ s[1] = NL THEN 1 + RunLen(Tail(s)) ELSE 0

\* re.sub(r"\n{3,}", "\n\n", s): every maximal run of three or more line
\* breaks becomes two
RECURSIVE CollapseBreaks(_)
CollapseBreaks(s) ==
    IF Len(s) = 0 THEN <<>>
    ELSE LET k == RunLen(s) IN
         IF k >= 3 THEN <<NL, NL>> \o CollapseBreaks(SubSeq(s, k + 1, Len(s)))
         ELSE IF k >= 1 THEN SubSeq(s, 1, k) \o CollapseBreaks(SubSeq(s, k + 1, Len(s)))
         ELSE <<s[1]>> \o CollapseBreaks(Tail(s))

\* a slice bound as Python reads it: negative counts from the end, then clamped
Clamp(s, i) ==
    LET j == IF i < 0 THEN i + Len(s) ELSE i IN
    IF j < 0 THEN 0 ELSE IF j > Len(s) THEN Len(s) ELSE j

\* s[:j]
SliceTo(s, j) == SubSeq(s, 1, Clamp(s, j))
\* s[i:]
SliceFrom(s, i) == SubSeq(s, Clamp(s, i) + 1, Len(s))

Digit(d) == CASE d = 0 -> "0" [] d = 1 -> "1" [] d = 2 -> "2" [] d = 3 -> "3"
              [] d = 4 -> "4" [] d = 5 -> "5" [] d = 6 -> "6" [] d = 7 -> "7"
              [] d = 8 -> "8" [] d = 9 -> "9"

RECURSIVE Decimal(_)
\* str(n) for n >= 0
Decimal(n) == IF n < 10 THEN <<Digit(n)>> ELSE Decimal(n \div 10) \o <<Digit(n % 10)>>

MarkerHead ==
    <<"\n", ".", ".", ".", "_", "T", "h", "i", "s", " ", "c", "o", "n", "t",
        "e", "n", "t", " ", "h", "a", "s", " ", "b", "e", "e", "n", " ", "t",
        "r", "u", "n", "c", "a", "t", "e", "d", " ", "t", "o", " ", "s", "t",
        "a", "y", " ", "b", "e", "l", "o", "w", " " >>

MarkerTail ==
    <<" ", "c", "h", "a", "r", "a", "c", "t", "e", "r", "s", "_", ".", ".",
        ".", "\n" >>

\* truncate_content(content, max_length) of smolagents.utils, the function
\* line 38 imports and line 54 calls:
\*   if len(content) <= max_length: return content
\*   return content[: max_length // 2]
\*        + f"\n..._This content has been truncated to stay below {max_length} characters_...\n"
\*        + content[-max_length // 2 :]
truncate_content(content, max_length) ==
    IF Len(content) <= max_length THEN content
    ELSE SliceTo(content, max_length \div 2)
         \o MarkerHead \o Decimal(max_length) \o MarkerTail
         \o SliceFrom(content, (-max_length) \div 2)

(* --------------------------- webpage tool ------------------------------- *)

Urls == {"https://x", "https://y"}

NoText == [kind |-> "none", text |-> <<>>, exc |-> NoExc]
NoGet == [kind |-> "none", status |-> 0, exc |-> NoExc]

\* what requests.get(url, timeout=20) can raise
GetFaults ==
    { [cls |-> "ReadTimeout", msg |-> "Read timed out. (read timeout=20)"],
      [cls |-> "Timeout", msg |-> "timed out"],
      [cls |-> "ConnectionError", msg |-> "Name or service not known"],
      [cls |-> "RequestException", msg |-> "Invalid URL"],
      [cls |-> "UnicodeError", msg |-> "label empty or too long"] }

BadStatuses == {404, 500}

\* what markdownify can raise
ConvertFaults == { [cls |-> "RecursionError", msg |-> "maximum recursion depth exceeded"] }

\* one run of the environment of VisitWebpageTool.__call__: whether the
\* imports of lines 33-38 succeed, what requests.get does, and what
\* markdownify does with the body
VisitEnvs ==
    { [imports |-> FALSE, get |-> NoGet, md |-> NoText] }
    \cup { [imports |-> TRUE, get |-> [kind |-> "raise", status |-> 0, exc |-> e],
            md |-> NoText] : e \in GetFaults }
    \cup { [imports |-> TRUE, get |-> [kind |-> "response", status |-> c, exc |-> NoExc],
            md |-> NoText] : c \in BadStatuses }
    \cup { [imports |-> TRUE, get |-> [kind |-> "response", status |-> 200, exc |-> NoExc],
            md |-> [kind |-> "raise", text |-> <<>>, exc |-> e]] : e \in ConvertFaults }
    \cup { [imports |-> TRUE, get |-> [kind |-> "response", status |-> 200, exc |-> NoExc],
            md |-> [kind |-> "text", text |-> t, exc |-> NoExc]] : t \in Texts }

\* response.raise_for_status()
StatusFault(url, status) ==
    [cls |-> "HTTPError",
     msg |-> (IF status < 500 THEN "404 Client Error: Not Found for url: "
              ELSE "500 Server Error: Internal Server Error for url: ") \o url]

\* a returned page (form "page": text holds its characters), a returned
\* message (form "message") or a raised exception
Page(t) == [kind |-> "return", form |-> "page", text |-> t, message |-> "", exc |-> NoExc]
Message(m) == [kind |-> "return", form |-> "message", text |-> <<>>, message |-> m, exc |-> NoExc]
Escapes(e) == [kind |-> "raise", form |-> "", text |-> <<>>, message |-> "", exc |-> e]

\* the ImportError of lines 40-42 (its message without the quoting marks)
ImportFault ==
    [cls |-> "ImportError",
     msg |-> "You must install packages markdownify and requests to run this tool"]

\* variant: the last handler (except Exception) is missing
HandleFault_NoCatchAll(e) ==
    IF IsInstance(e, "Timeout")
    THEN Message("The request timed out. Please try again later or check the URL.")
    ELSE IF IsInstance(e, "RequestException")
    THEN Message("Error fetching the webpage: " \o e.msg)
    ELSE Escapes(e)

\* variant: the RequestException handler comes before the Timeout handler
HandleFault_Reordered(e) ==
    IF IsInstance(e, "RequestException")
    THEN Message("Error fetching the webpage: " \o e.msg)
    ELSE IF IsInstance(e, "Timeout")
    THEN Message("The request timed out. Please try again later or check the URL.")
    ELSE IF IsInstance(e, "Exception")
    THEN Message("An unexpected error occurred: " \o e.msg)
    ELSE Escapes(e)

\* the except clauses of lines 56-61, tried in order
HandleFault(e) ==
    IF IsInstance(e, "Timeout")
    THEN Message("The request timed out. Please try again later or check the URL.")
    ELSE IF IsInstance(e, "RequestException")
    THEN Message("Error fetching the webpage: " \o e.msg)
    ELSE IF IsInstance(e, "Exception")
    THEN Message("An unexpected error occurred: " \o e.msg)
    ELSE Escapes(e)

\* VisitWebpageTool.__call__; n is self.max_output_length
VisitCall(url, env, n) ==
    IF ~env.imports THEN Escapes(ImportFault)
    ELSE IF env.get.kind = "raise" THEN HandleFault(env.get.exc)
    ELSE IF env.get.status >= 400 THEN HandleFault(StatusFault(url, env.get.status))
    ELSE IF env.md.kind = "raise" THEN HandleFault(env.md.exc)
    ELSE Page(truncate_content(CollapseBreaks(Strip(env.md.text)), n))

IdleVisit ==
    [called |-> FALSE, url |-> "",
     env |-> [imports |-> TRUE, get |-> NoGet, md |-> NoText],
     outcome |-> [kind |-> "none", form |-> "", text |-> <<>>, message |-> "", exc |-> NoExc]]

\* a call of the VisitWebpageTool(max_output_length)
CallVisitWebpage ==
    \E u \in Urls, env \in VisitEnvs :
        /\ visit' = [called |-> TRUE, url |-> u, env |-> env,
                     outcome |-> VisitCall(u, env, max_output_length)]
        /\ UNCHANGED <<max_results, has_tavily, last, prev, max_output_length>>

(* --------------------------- specifications ----------------------------- *)

\* defaults of the constructors
DefaultMaxResults == 10
DefaultMaxOutputLength == 40000

\* the search tools in use, the webpage tool constructed and left alone
Init ==
    /\ InitSearch
    /\ max_output_length = DefaultMaxOutputLength
    /\ visit = IdleVisit

Next == CallDuckDuckGo \/ CallTavily \/ CallWebSearch

Spec == Init /\ [][Next]_vars

\* the webpage tool in use, the search tool constructed and left alone
InitVisit ==
    /\ max_results = DefaultMaxResults
    /\ has_tavily = HasTavily("None")
    /\ last = Idle
    /\ prev = "none"
    /\ max_output_length \in 0..MaxOutLen
    /\ visit = IdleVisit

NextVisit == CallVisitWebpage

SpecVisit == InitVisit /\ [][NextVisit]_vars

(* ------------------------ composite search tool ------------------------- *)

IsWebSearch == last.tool = "WebSearchTool"

\* number of invocations of an adapter during the last WebSearchTool call
CallCount(adapter) ==
    Cardinality({ i \in 1..Len(last.calls) : last.calls[i].adapter = adapter })

\* what the free-tier backend did in the last WebSearchTool call
DdgReturnedResults == last.ddg.kind = "results" /\ Len(last.ddg.results) >= 1
DdgOutage ==
    last.ddg.kind = "raise" /\ IsInstance(last.ddg.exc, "DuckDuckGoSearchException")
DdgOtherFault ==
    \/ last.ddg.kind = "raise" /\ ~IsInstance(last.ddg.exc, "DuckDuckGoSearchException")
    \/ last.ddg.kind = "results" /\ Len(last.ddg.results) = 0

\* C1: when the free-tier adapter returns at least one result, the composite
\* tool returns exactly the free-tier adapter's text and the keyed adapter is
\* called zero times, with or without a keyed adapter configured.
C1_PrimarySuccess ==
    (IsWebSearch /\ DdgReturnedResults) =>
        /\ last.outcome = DuckDuckGoCall(last.query, last.ddg)
        /\ last.outcome.kind = "return"
        /\ CallCount("tavily") = 0

C1_Witness ==
    /\ IsWebSearch /\ DdgReturnedResults /\ has_tavily
    /\ last.outcome.kind = "return"
    /\ Len(last.ddg.results) = 2

\* C2: on the outage fault with a keyed adapter configured, the keyed adapter
\* is called with the same query and the composite tool's outcome is the keyed
\* adapter's outcome, its text or its own failure.
C2_Fallback ==
    (IsWebSearch /\ DdgOutage /\ has_tavily) =>
        /\ CallCount("tavily") = 1
        /\ last.calls[Len(last.calls)] = CallOf("tavily", last.query)
        /\ last.outcome = TavilyCall(last.query, last.tav, max_results)

C2_Witness ==
    /\ IsWebSearch /\ DdgOutage /\ has_tavily
    /\ last.tav.kind = "raise"
    /\ last.outcome = Raise(last.tav.exc)

\* C3: without a keyed adapter, an outage fault of the free-tier adapter makes
\* the composite tool fail; it returns no value.
C3_NoFallbackFails ==
    (IsWebSearch /\ DdgOutage /\ ~has_tavily) => last.outcome.kind = "raise"

C3_Witness ==
    /\ IsWebSearch /\ DdgOutage /\ ~has_tavily
    /\ last.outcome.exc.cls = "AttributeError"

\* C4: any other failure of the free-tier adapter, its own zero-results error
\* included, reaches the caller unchanged and the keyed adapter is not called,
\* even when one is configured.
C4_OtherFaultsPropagate ==
    (IsWebSearch /\ DdgOtherFault) =>
        /\ last.outcome.kind = "raise"
        /\ last.outcome = DuckDuckGoCall(last.query, last.ddg)
        /\ CallCount("tavily") = 0

C4_Witness ==
    /\ IsWebSearch /\ has_tavily
    /\ last.ddg.kind = "results" /\ Len(last.ddg.results) = 0
    /\ last.outcome = Raise(NoResultsFault)

\* C5: every invocation calls the free-tier adapter exactly once and first,
\* calls the keyed adapter at most once and only after the outage fault of
\* that invocation, and calls nothing after the keyed adapter, whatever the
\* earlier invocation's outcome was.
C5_OneHop ==
    IsWebSearch =>
        /\ Len(last.calls) >= 1
        /\ last.calls[1] = CallOf("ddg", last.query)
        /\ CallCount("ddg") = 1
        /\ CallCount("tavily") <= 1
        /\ CallCount("tavily") = 1 =>
               (DdgOutage /\ Len(last.calls) = 2 /\ last.calls[2].adapter = "tavily")

C5_Witness ==
    /\ IsWebSearch /\ prev = "fallback"
    /\ last.calls = <<CallOf("ddg", last.query)>>
    /\ last.outcome.kind = "return"

(* --------------------------- search adapters ---------------------------- *)

\* C9: whenever its backend returns zero results, either adapter fails with
\* the no-results error and returns no text.
C9_EmptyIsAnError ==
    /\ (last.tool = "DuckDuckGoSearchTool" /\ last.ddg.kind = "results"
            /\ Len(last.ddg.results) = 0)
        => last.outcome = Raise(NoResultsFault)
    /\ (last.tool = "TavilySearchTool" /\ last.tav.kind = "dict"
            /\ Len(last.tav.results) = 0)
        => last.outcome = Raise(NoResultsFault)

\* the text the adapters are said to share: the heading, then one block per
\* result in rank order, a titled link and the snippet on the next line
ClaimedBlock(r) == "[" \o r.title \o "](" \o r.link \o ")\n" \o r.snippet
ClaimedText(rs) == "## Search Results\n\n" \o Join("\n\n", Map(ClaimedBlock, rs))

OfDDGDict(d) == [title |-> d.title, link |-> d.href, snippet |-> d.body]
OfTavilyDict(d) == [title |-> d.title, link |-> d.url, snippet |-> d.content]

\* C10: for the same non-empty ranked list of at most max_results results,
\* both adapters return the same text, the heading followed by the blocks
\* "[title](link)\nsnippet" separated by blank lines.
C10_SameFormat ==
    /\ (last.tool = "DuckDuckGoSearchTool" /\ last.ddg.kind = "results"
            /\ Len(last.ddg.results) \in 1..max_results)
        => last.outcome = Return(ClaimedText(Map(OfDDGDict, last.ddg.results)))
    /\ (last.tool = "TavilySearchTool" /\ last.tav.kind = "dict"
            /\ Len(last.tav.results) \in 1..max_results)
        => last.outcome = Return(ClaimedText(Map(OfTavilyDict, last.tav.results)))

(* ----------------------------- webpage tool ----------------------------- *)

\* the fault raised inside the try block of the last call, if any
VisitFaulted ==
    /\ visit.called /\ visit.env.imports
    /\ \/ visit.env.get.kind = "raise"
       \/ visit.env.get.status >= 400
       \/ visit.env.md.kind = "raise"

VisitFault ==
    IF visit.env.get.kind = "raise" THEN visit.env.get.exc
    ELSE IF visit.env.get.status >= 400 THEN StatusFault(visit.url, visit.env.get.status)
    ELSE visit.env.md.exc

\* C6 as stated: no exception escapes the call, whatever step fails, the
\* dependency imports included.
C6_NoEscape == visit.called => visit.outcome.kind = "return"

\* C6 amended: a fault of the request, the status check or the conversion is
\* returned as text; a failed dependency import is raised as ImportError.
C6_NoEscapeAfterImports ==
    visit.called =>
        IF visit.env.imports THEN visit.outcome.kind = "return"
        ELSE visit.outcome = Escapes(ImportFault)

C6_Witness ==
    /\ VisitFaulted /\ visit.env.md.kind = "raise"
    /\ visit.outcome.kind = "return" /\ visit.outcome.form = "message"

\* C7: a timeout yields the fixed timeout message, any other request or
\* bad-status fault "Error fetching the webpage: " and its description, any
\* other fault "An unexpected error occurred: " and its description.
C7_MessageByClass ==
    VisitFaulted =>
        LET e == VisitFault IN
        IF IsInstance(e, "Timeout")
        THEN visit.outcome =
                 Message("The request timed out. Please try again later or check the URL.")
        ELSE IF IsInstance(e, "RequestException")
        THEN visit.outcome = Message("Error fetching the webpage: " \o e.msg)
        ELSE visit.outcome = Message("An unexpected error occurred: " \o e.msg)

C7_Witness ==
    /\ VisitFaulted /\ VisitFault.cls = "ReadTimeout"
    /\ visit.outcome.message =
           "The request timed out. Please try again later or check the URL."

HasLongBreak(t) ==
    \E i \in 1..(Len(t) - 2) : t[i] = NL /\ t[i + 1] = NL /\ t[i + 2] = NL

\* C8: the text of a successful fetch is at most max_output_length characters
\* long and has no run of three or more line breaks.
C8_BoundedOutput ==
    (visit.called /\ visit.outcome.form = "page") =>
        /\ Len(visit.outcome.text) <= max_output_length
        /\ ~HasLongBreak(visit.outcome.text)

====
